---- MODULE Spec2Model ----
(***************************************************************************)
(* A model of linq_to_ics.py: the conversion of school meal-menu JSON      *)
(* documents into iCalendar files.                                         *)
(*                                                                         *)
(* Text is modelled as a sequence of tokens.  A token is a maximal run of  *)
(* whitespace or a maximal run of non-whitespace characters, with its      *)
(* length in characters: [ws, s, n, off].  A piece cut out of a longer     *)
(* token by the word wrapper keeps the token's name s and records the      *)
(* offset off of its first character.                                      *)
(***************************************************************************)
EXTENDS Integers, Sequences, FiniteSets, TLC

VARIABLES
    json_files,   \* main: args.json_files, the input paths
    idx,          \* main: position of the for loop in json_files
    status,       \* main: "running", "done", or "aborted" (uncaught exception)
    log,          \* main: one entry per input handed to process_json_file
    disk,         \* the files written by main: output path -> content
    tz_cache,     \* tzlocal's process-wide cache behind get_localzone()
    tz_env,       \* the zone the executing environment is set to
    data,         \* process_json_file: the parsed document (document runs)
    ics,          \* process_json_file: its outcome (document runs)
    menu_meals,   \* format_description: its argument (formatter runs)
    description   \* format_description: its outcome (formatter runs)

driver_vars == <<json_files, idx, status, log, disk, tz_cache, tz_env>>
vars == <<driver_vars, data, ics, menu_meals, description>>

(***************************************************************************)
(* Bounds of the model.                                                    *)
(***************************************************************************)
MaxFiles == 2
MaxItems == 5
MaxMeals == 3

(***************************************************************************)
(* Text helpers.                                                           *)
(***************************************************************************)
Word(s, n) == [ws |-> FALSE, s |-> s, n |-> n, off |-> 0]
Blank(n) == [ws |-> TRUE, s |-> " ", n |-> n, off |-> 0]
W(s) == <<Word(s, Len(s))>>
SP == <<Blank(1)>>

\* The two characters backslash, n: the literal newline escape of line 55,
\* 60 and 65.
ESC == Word("\\n", 2)
\* The newline character textwrap.fill puts between the lines of a paragraph.
NL == [ws |-> TRUE, s |-> "NL", n |-> 1, off |-> 0]

RECURSIVE TextLen(_)
TextLen(t) == IF t = <<>> THEN 0 ELSE Head(t).n + TextLen(Tail(t))

RECURSIVE Flatten(_)
Flatten(ss) == IF ss = <<>> THEN <<>> ELSE Head(ss) \o Flatten(Tail(ss))

RECURSIVE Join(_, _)
Join(sep, ss) ==
    IF ss = <<>> THEN <<>>
    ELSE IF Len(ss) = 1 THEN ss[1]
    ELSE ss[1] \o sep \o Join(sep, Tail(ss))

\* The sequences over S of length at most n.
SeqsUpTo(S, n) == UNION { [1..k -> S] : k \in 0..n }

\* str.split(sep), on a sequence.
RECURSIVE SplitAt(_, _, _)
SplitAt(t, sep, cur) ==
    IF t = <<>> THEN <<cur>>
    ELSE IF Head(t) = sep THEN <<cur>> \o SplitAt(Tail(t), sep, <<>>)
    ELSE SplitAt(Tail(t), sep, Append(cur, Head(t)))

\* Python's  needle in haystack  for strings, on tokens.
Contains(haystack, needle) ==
    \E i \in 0..(Len(haystack) - Len(needle)) :
        \A j \in 1..Len(needle) : haystack[i + j] = needle[j]

(***************************************************************************)
(* JSON values that may be absent or null.                                 *)
(***************************************************************************)
Absent == [k |-> "absent"]
JNull == [k |-> "null"]
JStr(s) == [k |-> "str", v |-> s]
\* A variable not assigned yet.
Unset == [k |-> "unset"]

(***************************************************************************)
(* get_meal_times                                                          *)
(***************************************************************************)
NoTimes == [start |-> "None", end |-> "None"]

\* get_meal_times with one more entry in its table.
get_meal_times_Dinner(meal_name) ==
    IF meal_name = JStr("Breakfast") THEN [start |-> "080000", end |-> "100000"]
    ELSE IF meal_name = JStr("Lunch") THEN [start |-> "110000", end |-> "130000"]
    ELSE IF meal_name = JStr("Snack") THEN [start |-> "140000", end |-> "160000"]
    ELSE IF meal_name = JStr("Dinner") THEN [start |-> "170000", end |-> "190000"]
    ELSE NoTimes

get_meal_times(meal_name) ==
    IF meal_name = JStr("Breakfast") THEN [start |-> "080000", end |-> "100000"]
    ELSE IF meal_name = JStr("Lunch") THEN [start |-> "110000", end |-> "130000"]
    ELSE IF meal_name = JStr("Snack") THEN [start |-> "140000", end |-> "160000"]
    ELSE NoTimes

(***************************************************************************)
(* textwrap.fill(line, 72), as called on line 65: TextWrapper with its     *)
(* defaults (drop_whitespace, break_long_words).                           *)
(***************************************************************************)
FoldWidth == 72

\* TextWrapper._split: the text as chunks, whitespace runs and words.
\* A chunk put before the chunks of the rest of the text: whitespace joins
\* the whitespace that follows it.
ChunkBefore(a, rest) ==
    IF a.ws /\ Head(rest).ws
    THEN <<[a EXCEPT !.n = a.n + Head(rest).n]>> \o Tail(rest)
    ELSE <<a>> \o rest

RECURSIVE Chunks(_)
Chunks(t) ==
    IF Len(t) <= 1 THEN t
    ELSE ChunkBefore(Head(t), Chunks(Tail(t)))

\* The inner while loop of _wrap_chunks: the chunks that fit on the line.
RECURSIVE TakeFit(_, _, _)
TakeFit(chunks, cur_line, width) ==
    IF chunks # <<>> /\ TextLen(cur_line) + Head(chunks).n <= width
    THEN TakeFit(Tail(chunks), Append(cur_line, Head(chunks)), width)
    ELSE [cur_line |-> cur_line, chunks |-> chunks]

\* str.strip() == '' : whitespace, or the empty string.
IsBlankChunk(c) == c.ws \/ c.n = 0

\* TextWrapper._wrap_chunks, one iteration of the outer loop per call.
RECURSIVE WrapChunks(_, _, _)
WrapChunks(chunks0, lines, width) ==
    IF chunks0 = <<>> THEN lines
    ELSE
    LET chunks1 == IF IsBlankChunk(Head(chunks0)) /\ lines # <<>>
                   THEN Tail(chunks0) ELSE chunks0
        fit == TakeFit(chunks1, <<>>, width)
        long == fit.chunks # <<>> /\ Head(fit.chunks).n > width
        space_left == width - TextLen(fit.cur_line)
        c == Head(fit.chunks)
        \* _handle_long_word with break_long_words
        cur_line2 == IF long
                     THEN Append(fit.cur_line, [c EXCEPT !.n = space_left])
                     ELSE fit.cur_line
        chunks2 == IF long
                   THEN <<[c EXCEPT !.n = c.n - space_left,
                                    !.off = c.off + space_left]>>
                        \o Tail(fit.chunks)
                   ELSE fit.chunks
        cur_line3 == IF cur_line2 # <<>> /\ IsBlankChunk(cur_line2[Len(cur_line2)])
                     THEN SubSeq(cur_line2, 1, Len(cur_line2) - 1)
                     ELSE cur_line2
    IN WrapChunks(chunks2,
                  IF cur_line3 # <<>> THEN Append(lines, cur_line3) ELSE lines,
                  width)

\* textwrap.wrap: the list of output lines.
wrap(text, width) == WrapChunks(Chunks(text), <<>>, width)

\* textwrap.fill: the lines joined by the newline character.
fill(text, width) == Join(<<NL>>, wrap(text, width))

(***************************************************************************)
(* format_description                                                      *)
(*                                                                         *)
(* A meal is [MenuMealName, RecipeCategories]; MenuMealName is Absent,     *)
(* JNull or JStr(text); RecipeCategories is a sequence of categories, a    *)
(* category a sequence of recipes, a recipe [RecipeName |-> Absent or      *)
(* JStr(text)].                                                            *)
(***************************************************************************)
DailySpecial == W("Daily") \o SP \o W("Special")
Milk == W("Milk")

\* The exceptions format_description lets escape: "Daily Special" in None
\* (TypeError) and recipe["RecipeName"] of a recipe without one (KeyError).
MealRaises(meal) ==
    \/ \E c \in 1..Len(meal.RecipeCategories) :
         \E r \in 1..Len(meal.RecipeCategories[c]) :
            meal.RecipeCategories[c][r].RecipeName = Absent
    \/ meal.MenuMealName = JNull

\* meal.get("MenuMealName", "")
MealName(meal) == IF meal.MenuMealName = Absent THEN <<>> ELSE meal.MenuMealName.v

\* lines 32-36
RecipesOf(meal) ==
    LET cats == meal.RecipeCategories
        names(c) == [r \in 1..Len(cats[c]) |-> cats[c][r].RecipeName.v]
    IN Flatten([c \in 1..Len(cats) |-> names(c)])

Bullet(r) == W("-") \o SP \o r
Header(name) == W("==") \o SP \o name \o SP \o W("==")

\* IsSpecial as an exact match of the meal name.
IsSpecial_Exact(meal_name) == meal_name = DailySpecial
IsSpecial(meal_name) == Contains(meal_name, DailySpecial)
IsMilk(meal_name) == Contains(meal_name, Milk)

\* lines 26-46: the three buckets after the loop over the first n meals.
RECURSIVE Buckets(_, _)
Buckets(meals, n) ==
    IF n = 0 THEN [specials |-> <<>>, milk |-> <<>>, other |-> <<>>]
    ELSE LET b == Buckets(meals, n - 1)
             meal_name == MealName(meals[n])
             recipes == RecipesOf(meals[n])
         IN IF IsSpecial(meal_name)
            THEN [b EXCEPT !.specials = @ \o recipes]
            ELSE IF IsMilk(meal_name)
            THEN [b EXCEPT !.milk = @ \o recipes]
            ELSE IF recipes # <<>>
            THEN [b EXCEPT !.other = @ \o <<Header(meal_name)>>
                            \o [i \in 1..Len(recipes) |-> Bullet(recipes[i])]]
            ELSE b

\* The separator appended on lines 55 and 60.
Spacing == <<ESC>>

\* lines 48-62: description_parts
description_parts(meals) ==
    LET b == Buckets(meals, Len(meals))
        p1 == IF b.specials # <<>>
              THEN <<Header(DailySpecial)>>
                   \o [i \in 1..Len(b.specials) |-> Bullet(b.specials[i])]
              ELSE <<>>
        p2 == IF b.other # <<>>
              THEN p1 \o (IF p1 # <<>> THEN <<Spacing>> ELSE <<>>) \o b.other
              ELSE p1
        p3 == IF b.milk # <<>>
              THEN p2 \o (IF p2 # <<>> THEN <<Spacing>> ELSE <<>>)
                      \o <<Header(Milk)>>
                      \o [i \in 1..Len(b.milk) |-> Bullet(b.milk[i])]
              ELSE p2
    IN p3

\* line 65
format_description(meals) ==
    LET parts == description_parts(meals)
    IN Join(<<ESC>>, [i \in 1..Len(parts) |-> fill(parts[i], FoldWidth)])

(***************************************************************************)
(* datetime.strptime(date_str, "%m/%d/%Y") and strftime("%Y%m%d").         *)
(* A date string is a sequence of one-character strings.                   *)
(***************************************************************************)
DigitChars == <<"0", "1", "2", "3", "4", "5", "6", "7", "8", "9">>
IsDigit(c) == \E i \in 1..10 : DigitChars[i] = c
DigitVal(c) == (CHOOSE i \in 1..10 : DigitChars[i] = c) - 1

RECURSIVE NumVal(_)
NumVal(cs) ==
    IF cs = <<>> THEN 0
    ELSE 10 * NumVal(SubSeq(cs, 1, Len(cs) - 1)) + DigitVal(cs[Len(cs)])

\* %m : 1[0-2]|0[1-9]|[1-9]
MatchesMonth(f) ==
    \/ Len(f) = 1 /\ IsDigit(f[1]) /\ f[1] # "0"
    \/ Len(f) = 2 /\ f[1] = "0" /\ IsDigit(f[2]) /\ f[2] # "0"
    \/ Len(f) = 2 /\ f[1] = "1" /\ f[2] \in {"0", "1", "2"}

\* %d : 3[01]|[12]\d|0[1-9]|[1-9]| [1-9]
MatchesDay(f) ==
    \/ Len(f) = 1 /\ IsDigit(f[1]) /\ f[1] # "0"
    \/ Len(f) = 2 /\ f[1] = "3" /\ f[2] \in {"0", "1"}
    \/ Len(f) = 2 /\ f[1] \in {"1", "2"} /\ IsDigit(f[2])
    \/ Len(f) = 2 /\ f[1] \in {"0", " "} /\ IsDigit(f[2]) /\ f[2] # "0"

\* %Y : \d\d\d\d
MatchesYear(f) == Len(f) = 4 /\ \A i \in 1..4 : IsDigit(f[i])

IsLeap(y) == (y % 4 = 0 /\ y % 100 # 0) \/ y % 400 = 0
DaysInMonth(y, m) ==
    IF m = 2 THEN (IF IsLeap(y) THEN 29 ELSE 28)
    ELSE IF m \in {4, 6, 9, 11} THEN 30 ELSE 31

DayDigits(f) == IF f[1] = " " THEN Tail(f) ELSE f

\* [ok |-> FALSE] where strptime raises ValueError or TypeError.
strptime(date_str) ==
    IF date_str.k # "str" THEN [ok |-> FALSE]
    ELSE LET f == SplitAt(date_str.v, "/", <<>>)
         IN IF Len(f) = 3 /\ MatchesMonth(f[1]) /\ MatchesDay(f[2]) /\ MatchesYear(f[3])
               /\ NumVal(f[3]) >= 1
               /\ NumVal(DayDigits(f[2])) <= DaysInMonth(NumVal(f[3]), NumVal(f[1]))
            THEN [ok |-> TRUE, year |-> NumVal(f[3]), month |-> NumVal(f[1]),
                  day |-> NumVal(DayDigits(f[2]))]
            ELSE [ok |-> FALSE]

RECURSIVE Decimal(_)
Decimal(n) ==
    IF n < 10 THEN <<DigitChars[n + 1]>>
    ELSE Append(Decimal(n \div 10), DigitChars[(n % 10) + 1])

TwoDigits(n) == <<DigitChars[(n \div 10) + 1], DigitChars[(n % 10) + 1]>>

\* date_obj.strftime("%Y%m%d")
strftime(date_obj) ==
    Decimal(date_obj.year) \o TwoDigits(date_obj.month) \o TwoDigits(date_obj.day)

(***************************************************************************)
(* The local timezone: tzlocal.get_localzone() answers from a process-wide *)
(* cache, which it fills from the environment on its first call.           *)
(***************************************************************************)
Zones == {"America/New_York", "Asia/Tokyo"}
Instants == {"20240115T120000Z", "20240715T120000Z"}

\* get_localzone() without its cache: the environment is read at every call.
get_localzone_Uncached(cache, env) == env
get_localzone(cache, env) == IF cache = Unset THEN env ELSE cache.key
CacheOf(cache, env) == [k |-> "zone", key |-> get_localzone(cache, env)]

\* datetime.now(local_tz): utcoffset() and dst() in minutes, and tzname().
NowIn(zone, instant) ==
    IF zone = "America/New_York"
    THEN IF instant = "20240715T120000Z"
         THEN [utcoffset |-> -240, dst |-> 60, tzname |-> "EDT"]
         ELSE [utcoffset |-> -300, dst |-> 0, tzname |-> "EST"]
    ELSE [utcoffset |-> 540, dst |-> 0, tzname |-> "JST"]

\* lines 101-106, on an offset in minutes
format_offset(offset) ==
    LET total_seconds == offset * 60
        abs == IF total_seconds < 0 THEN -total_seconds ELSE total_seconds
        hours == abs \div 3600
        minutes == (abs % 3600) \div 60
    IN [sign |-> IF total_seconds < 0 THEN "-" ELSE "+",
        hours |-> hours, minutes |-> minutes]

\* lines 82-133
get_vtimezone_component(tz_name, now) ==
    LET std_offset == now.utcoffset - now.dst
        dst_offset == now.utcoffset
        standard == [DTSTART |-> "19710101T020000",
                     TZOFFSETFROM |-> format_offset(dst_offset),
                     TZOFFSETTO |-> format_offset(std_offset),
                     TZNAME |-> now.tzname]
        daylight == [DTSTART |-> "19710314T020000",
                     TZOFFSETFROM |-> format_offset(std_offset),
                     TZOFFSETTO |-> format_offset(dst_offset),
                     TZNAME |-> now.tzname]
    IN [type |-> "VTIMEZONE", TZID |-> tz_name,
        blocks |-> IF std_offset # dst_offset
                   THEN <<standard, daylight>> ELSE <<standard>>]

(***************************************************************************)
(* create_ics_event; tz_name is what its call of get_localzone() returns.  *)
(***************************************************************************)
create_ics_event(uid, dtstamp, start_time, end_time, summary, desc, tz_name) ==
    [type |-> "VEVENT",
     UID |-> uid,
     DTSTAMP |-> dtstamp,
     DTSTART |-> [TZID |-> tz_name, value |-> start_time],
     DTEND |-> [TZID |-> tz_name, value |-> end_time],
     SUMMARY |-> summary,
     DESCRIPTION |-> desc]

(***************************************************************************)
(* process_json_file                                                       *)
(*                                                                         *)
(* A path is [dir, base, ext].  What open() and json.load() find at a path *)
(* is one of                                                               *)
(*   [k |-> "missing"]      FileNotFoundError                              *)
(*   [k |-> "unreadable"]   PermissionError                                *)
(*   [k |-> "invalid"]      json.JSONDecodeError                           *)
(*   [k |-> "list"]         valid JSON whose top level is not an object    *)
(*   [k |-> "object", v |-> document]                                      *)
(* A document is [FamilyMenuSessions |-> sessions]; a session is           *)
(* [ServingSession, MenuPlans]; a plan [MenuPlanId, Days]; a day           *)
(* [Date, MenuMeals].                                                      *)
(***************************************************************************)
None == [k |-> "None"]

\* dict.get(key): None for an absent key
Get(x) == IF x = Absent THEN JNull ELSE x

\* os.path.basename(filepath)
basename(path) == <<path.base, path.ext>>

\* f"{plan.get('MenuPlanId', '')}"
PlanIdText(plan) ==
    IF plan.MenuPlanId = Absent THEN <<>>
    ELSE IF plan.MenuPlanId = JNull THEN <<"None">>
    ELSE plan.MenuPlanId.v

\* f"{serving_session}"
LabelText(serving_session) == serving_session.v

\* The days the three nested loops of lines 148-156 reach, in order: those
\* of the sessions that pass the check of line 152.
DaysOfPlan(session, plan) ==
    [d \in 1..Len(plan.Days) |->
        [serving_session |-> Get(session.ServingSession),
         times |-> get_meal_times(Get(session.ServingSession)),
         plan |-> plan,
         day |-> plan.Days[d]]]

DaysOfSession(session) ==
    IF get_meal_times(Get(session.ServingSession)) = NoTimes THEN <<>>
    ELSE Flatten([p \in 1..Len(session.MenuPlans) |->
                    DaysOfPlan(session, session.MenuPlans[p])])

DaysReached(document) ==
    Flatten([s \in 1..Len(document.FamilyMenuSessions) |->
               DaysOfSession(document.FamilyMenuSessions[s])])

DayRaises(day) == \E m \in 1..Len(day.MenuMeals) : MealRaises(day.MenuMeals[m])

\* The zone the environment is set to at the c-th call of get_localzone()
\* of one run of process_json_file: it may change once while the run is in
\* progress.
ZoneSeen(env, c) == IF c = 1 THEN env.first ELSE env.later

\* BuildEvents with  break  in place of the  continue  of line 164.
RECURSIVE BuildEvents_Break(_, _, _, _, _, _)
BuildEvents_Break(filepath, reached, k, dtstamp, envs, acc) ==
    IF k > Len(reached) THEN acc
    ELSE
    LET it == reached[k]
        date_obj == strptime(Get(it.day.Date))
        date_yyyymmdd == strftime(date_obj)
        start_time == date_yyyymmdd \o <<"T", it.times.start>>
        end_time == date_yyyymmdd \o <<"T", it.times.end>>
        summary == LabelText(it.serving_session)
        uid == date_yyyymmdd \o <<"-", summary, "-">> \o PlanIdText(it.plan)
               \o <<"@">> \o basename(filepath)
        env == ZoneSeen(envs, Len(acc.ics_events) + 1)
        event == create_ics_event(uid, dtstamp, start_time, end_time, summary,
                                  format_description(it.day.MenuMeals),
                                  get_localzone(acc.cache, env))
    IN IF ~date_obj.ok
       THEN acc
       ELSE IF DayRaises(it.day)
       THEN [acc EXCEPT !.raised = TRUE]
       ELSE BuildEvents_Break(filepath, reached, k + 1, dtstamp, envs,
                        [acc EXCEPT !.ics_events = Append(@, event),
                                    !.cache = CacheOf(acc.cache, env)])

\* lines 157-174 for the days from position k on.
RECURSIVE BuildEvents(_, _, _, _, _, _)
BuildEvents(filepath, reached, k, dtstamp, envs, acc) ==
    IF k > Len(reached) THEN acc
    ELSE
    LET it == reached[k]
        date_obj == strptime(Get(it.day.Date))
        date_yyyymmdd == strftime(date_obj)
        start_time == date_yyyymmdd \o <<"T", it.times.start>>
        end_time == date_yyyymmdd \o <<"T", it.times.end>>
        summary == LabelText(it.serving_session)
        uid == date_yyyymmdd \o <<"-", summary, "-">> \o PlanIdText(it.plan)
               \o <<"@">> \o basename(filepath)
        env == ZoneSeen(envs, Len(acc.ics_events) + 1)
        event == create_ics_event(uid, dtstamp, start_time, end_time, summary,
                                  format_description(it.day.MenuMeals),
                                  get_localzone(acc.cache, env))
    IN IF ~date_obj.ok
       THEN BuildEvents(filepath, reached, k + 1, dtstamp, envs, acc)
       ELSE IF DayRaises(it.day)
       THEN [acc EXCEPT !.raised = TRUE]
       ELSE BuildEvents(filepath, reached, k + 1, dtstamp, envs,
                        [acc EXCEPT !.ics_events = Append(@, event),
                                    !.cache = CacheOf(acc.cache, env)])

CalendarBegin ==
    [type |-> "VCALENDAR", VERSION |-> "2.0",
     PRODID |-> "-//GeminiCodeAssist//LINQ to ICS//EN"]
CalendarEnd == [type |-> "END:VCALENDAR"]

\* Assemble without the check of line 176.
Assemble_NoEmptyCheck(ics_events, vtimezone_block) ==
    [k |-> "ics",
     v |-> <<CalendarBegin, vtimezone_block>> \o ics_events \o <<CalendarEnd>>]

\* lines 176-187
Assemble(ics_events, vtimezone_block) ==
    IF ics_events = <<>> THEN None
    ELSE [k |-> "ics",
          v |-> <<CalendarBegin, vtimezone_block>> \o ics_events \o <<CalendarEnd>>]

\* What process_json_file does after its loops, lines 176-187, given what the
\* loops built: whether an exception escaped, the value returned, and the
\* timezone cache afterwards.
ReturnOf(built, instant, envs) ==
    LET env == ZoneSeen(envs, Len(built.ics_events) + 1)
        tz_name == get_localzone(built.cache, env)
    IN IF built.raised
       THEN [raised |-> TRUE, value |-> None, cache |-> built.cache]
       ELSE [raised |-> FALSE,
             value |-> Assemble(built.ics_events,
                                get_vtimezone_component(tz_name, NowIn(tz_name, instant))),
             cache |-> IF built.ics_events = <<>> THEN built.cache
                       ELSE CacheOf(built.cache, env)]

\* The outcome of a call: whether an exception escaped, the value returned,
\* and the timezone cache afterwards.
process_json_file(filepath, content, instant, cache, envs) ==
    IF content.k \in {"missing", "invalid"}
    THEN [raised |-> FALSE, value |-> None, cache |-> cache]
    ELSE IF content.k \in {"unreadable", "list"}
    THEN [raised |-> TRUE, value |-> None, cache |-> cache]
    ELSE ReturnOf(BuildEvents(filepath, DaysReached(content.v), 1, instant, envs,
                              [ics_events |-> <<>>, raised |-> FALSE, cache |-> cache]),
                  instant, envs)

\* The variables of the runs a specification leaves out.
IdleDriver ==
    /\ json_files = <<>> /\ idx = 1 /\ status = "done"
    /\ log = <<>> /\ disk = {} /\ tz_cache = Unset /\ tz_env = "Asia/Tokyo"
IdleDocument == data = Unset /\ ics = Unset
IdleFormatter == menu_meals = <<>> /\ description = JStr(<<>>)

(***************************************************************************)
(* Document runs: process_json_file applied to one parsed document.        *)
(* The documents are built from sequences of items, each of which opens a  *)
(* session (with its first plan), opens a further plan in the last        *)
(* session, or adds a day to the last plan.                                *)
(***************************************************************************)
Date_3_4_2024 == <<"3", "/", "4", "/", "2", "0", "2", "4">>
Date_12_05_2024 == <<"1", "2", "/", "0", "5", "/", "2", "0", "2", "4">>
Date_13_45_2024 == <<"1", "3", "/", "4", "5", "/", "2", "0", "2", "4">>

PizzaMeals ==
    << [MenuMealName |-> JStr(DailySpecial),
        RecipeCategories |-> << <<[RecipeName |-> JStr(W("Pizza"))]>> >>] >>

LabelChoices == {JStr("Lunch"), JStr("Dinner"), JStr(""), JNull}
DateChoices == {JStr(Date_3_4_2024), JStr(Date_12_05_2024), JStr(Date_13_45_2024), Absent}

Items ==
    {[t |-> "session", label |-> l] : l \in LabelChoices}
    \cup {[t |-> "plan"]}
    \cup {[t |-> "day", date |-> d] : d \in DateChoices}

NewPlan(n) == [MenuPlanId |-> JStr(Decimal(n)), Days |-> <<>>]

AddItem(sessions, item) ==
    LET n == Len(sessions)
        np == Len(sessions[n].MenuPlans)
    IN IF item.t = "session"
       THEN Append(sessions, [ServingSession |-> item.label, MenuPlans |-> <<NewPlan(1)>>])
       ELSE IF n = 0 THEN sessions
       ELSE IF item.t = "plan"
       THEN [sessions EXCEPT ![n].MenuPlans = Append(@, NewPlan(np + 1))]
       ELSE [sessions EXCEPT ![n].MenuPlans[np].Days =
                Append(@, [Date |-> item.date, MenuMeals |-> PizzaMeals])]

RECURSIVE BuildSessions(_)
BuildSessions(items) ==
    IF items = <<>> THEN <<>>
    ELSE AddItem(BuildSessions(SubSeq(items, 1, Len(items) - 1)), items[Len(items)])

Document(items) == [FamilyMenuSessions |-> BuildSessions(items)]

MenuPath == [dir |-> "menus", base |-> "week1", ext |-> ".json"]
TokyoCache == [k |-> "zone", key |-> "Asia/Tokyo"]
TokyoEnv == [first |-> "Asia/Tokyo", later |-> "Asia/Tokyo"]

InitDoc ==
    /\ IdleDriver /\ IdleFormatter
    /\ \E items \in SeqsUpTo(Items, MaxItems) : data = Document(items)
    /\ ics = Unset

ProcessDocument ==
    /\ ics = Unset
    /\ ics' = process_json_file(MenuPath, [k |-> "object", v |-> data],
                                "20240115T120000Z", TokyoCache, TokyoEnv)
    /\ UNCHANGED <<driver_vars, data, menu_meals, description>>

NextDoc == ProcessDocument

SpecDoc == InitDoc /\ [][NextDoc]_vars

(***************************************************************************)
(* main: the File Driver.  One step is one iteration of the loop of lines  *)
(* 194-201.  What the file system holds at the input path, the instant,    *)
(* the zone the environment is set to after the first call of              *)
(* get_localzone() of the iteration, and whether the output can be         *)
(* written, are the environment's choice.                                  *)
(***************************************************************************)
Paths ==
    { [dir |-> "", base |-> "m", ext |-> ".json"],
      [dir |-> "a", base |-> "m", ext |-> ".json"],
      [dir |-> "b", base |-> "m", ext |-> ".json"] }

Date_03_04_2024 == <<"0", "3", "/", "0", "4", "/", "2", "0", "2", "4">>
Date_2_30_2024 == <<"2", "/", "3", "0", "/", "2", "0", "2", "4">>

Day(date, meals) == [Date |-> date, MenuMeals |-> meals]
Plan(id, days) == [MenuPlanId |-> id, Days |-> days]
Session(label, plans) == [ServingSession |-> label, MenuPlans |-> plans]

\* The example of the specification: one Lunch, plan 7, 3/4/2024, Pizza.
DocLunch ==
    [FamilyMenuSessions |->
        <<Session(JStr("Lunch"), <<Plan(JStr(<<"7">>), <<Day(JStr(Date_3_4_2024), PizzaMeals)>>)>>)>>]

\* Two days of one plan that name the same calendar date.
DocSameDate ==
    [FamilyMenuSessions |->
        <<Session(JStr("Snack"),
             <<Plan(Absent, <<Day(JStr(Date_3_4_2024), PizzaMeals),
                              Day(JStr(Date_03_04_2024), <<>>)>>)>>)>>]

\* Every session has an unrecognized label.
DocUnrecognized ==
    [FamilyMenuSessions |->
        <<Session(JStr("Dinner"), <<Plan(JStr(<<"7">>), <<Day(JStr(Date_3_4_2024), PizzaMeals)>>)>>),
          Session(Absent, <<Plan(JStr(<<"7">>), <<Day(JStr(Date_3_4_2024), PizzaMeals)>>)>>)>>]

\* Every day has a date that does not parse.
DocBadDates ==
    [FamilyMenuSessions |->
        <<Session(JStr("Breakfast"),
             <<Plan(JStr(<<"7">>), <<Day(JStr(Date_2_30_2024), PizzaMeals),
                                     Day(JNull, PizzaMeals)>>)>>)>>]

\* A meal whose name is null, in the second day.
DocNullMealName ==
    [FamilyMenuSessions |->
        <<Session(JStr("Lunch"),
             <<Plan(JStr(<<"7">>),
                  <<Day(JStr(Date_3_4_2024), PizzaMeals),
                    Day(JStr(Date_12_05_2024),
                        <<[MenuMealName |-> JNull, RecipeCategories |-> <<>>]>>)>>)>>)>>]

FileContents ==
    { [k |-> "missing"], [k |-> "unreadable"], [k |-> "invalid"], [k |-> "list"] }
    \cup { [k |-> "object", v |-> d] :
             d \in {DocLunch, DocSameDate, DocUnrecognized, DocBadDates, DocNullMealName} }

\* lines 197-198: the path open(ics_filename, 'w') names, relative to the
\* working directory (dir "").
ics_filename(json_file) == [dir |-> "", base |-> json_file.base, ext |-> ".ics"]

Init ==
    /\ IdleDocument /\ IdleFormatter
    /\ json_files \in SeqsUpTo(Paths, MaxFiles) \ {<<>>}
    /\ idx = 1
    /\ status = "running"
    /\ log = <<>>
    /\ disk = {}
    /\ tz_cache = Unset
    /\ tz_env \in Zones

Advance ==
    /\ idx' = idx + 1
    /\ status' = IF idx + 1 > Len(json_files) THEN "done" ELSE "running"

ProcessFile ==
    /\ status = "running"
    /\ idx <= Len(json_files)
    /\ \E content \in FileContents, instant \in Instants, later \in Zones :
        \E r \in {process_json_file(json_files[idx], content, instant, tz_cache,
                                    [first |-> tz_env, later |-> later])} :
        \E entry \in {[input |-> json_files[idx], content |-> content,
                       raised |-> r.raised, value |-> r.value]} :
           /\ tz_cache' = r.cache
           /\ tz_env' = later
           /\ IF r.raised
              THEN \* an exception escapes process_json_file, and main
                   /\ status' = "aborted"
                   /\ log' = Append(log, entry @@ [write |-> "none"])
                   /\ UNCHANGED <<idx, disk>>
              ELSE IF r.value = None
              THEN \* line 196: nothing to write
                   /\ log' = Append(log, entry @@ [write |-> "none"])
                   /\ Advance
                   /\ UNCHANGED disk
              ELSE \E writable \in BOOLEAN :
                   IF writable
                   THEN \* lines 199-201
                        /\ log' = Append(log, entry @@ [write |-> "ok"])
                        /\ disk' = {f \in disk : f.path # ics_filename(json_files[idx])}
                                   \cup {[path |-> ics_filename(json_files[idx]),
                                          text |-> r.value.v]}
                        /\ Advance
                   ELSE \* open() or write() raises OSError, which escapes main
                        /\ log' = Append(log, entry @@ [write |-> "error"])
                        /\ status' = "aborted"
                        /\ UNCHANGED <<idx, disk>>
    /\ UNCHANGED <<json_files, data, ics, menu_meals, description>>

Next == ProcessFile

Spec == Init /\ [][Next]_vars

(***************************************************************************)
(* Claims about the Document Processor.                                    *)
(***************************************************************************)
RecognizedLabels == {"Breakfast", "Lunch", "Snack"}

IsRecognized(session) ==
    /\ session.ServingSession.k = "str"
    /\ session.ServingSession.v \in RecognizedLabels

IsEvent(component) == component.type = "VEVENT"
EventsOf(outcome) ==
    IF outcome.value = None THEN <<>> ELSE SelectSeq(outcome.value.v, IsEvent)

WithoutUnrecognized(document) ==
    [FamilyMenuSessions |-> SelectSeq(document.FamilyMenuSessions, IsRecognized)]

HasParsableDay(session) ==
    \E p \in 1..Len(session.MenuPlans) :
        \E d \in 1..Len(session.MenuPlans[p].Days) :
            session.MenuPlans[p].Days[d].Date
                \in {JStr(Date_3_4_2024), JStr(Date_12_05_2024)}

\* C4: a session whose label is not Breakfast, Lunch or Snack (missing, null
\* and empty labels included) contributes no event, whatever it holds, and
\* the events of the document are those of the document without it.
C4_UnrecognizedSkipped ==
    ics # Unset =>
        /\ \A e \in 1..Len(EventsOf(ics)) : EventsOf(ics)[e].SUMMARY \in RecognizedLabels
        /\ EventsOf(ics)
             = EventsOf(process_json_file(MenuPath,
                            [k |-> "object", v |-> WithoutUnrecognized(data)],
                            "20240115T120000Z", TokyoCache, TokyoEnv))

C4_Witness ==
    /\ ics # Unset
    /\ Len(data.FamilyMenuSessions) = 3
    /\ IsRecognized(data.FamilyMenuSessions[1])
    /\ ~IsRecognized(data.FamilyMenuSessions[2])
    /\ HasParsableDay(data.FamilyMenuSessions[2])
    /\ IsRecognized(data.FamilyMenuSessions[3])
    /\ Len(EventsOf(ics)) = 1

\* The calendar date of a date string that parses as month/day/year, for
\* the date strings of the document runs; <<>> for one that does not parse.
DateKey(date) ==
    IF date = JStr(Date_3_4_2024) THEN <<"2", "0", "2", "4", "0", "3", "0", "4">>
    ELSE IF date = JStr(Date_12_05_2024) THEN <<"2", "0", "2", "4", "1", "2", "0", "5">>
    ELSE <<>>

StartOf(label) ==
    IF label = "Breakfast" THEN "080000" ELSE IF label = "Lunch" THEN "110000" ELSE "140000"

ExpectedOfDay(session, plan, day) ==
    IF DateKey(day.Date) = <<>> THEN <<>>
    ELSE << [start |-> DateKey(day.Date) \o <<"T", StartOf(session.ServingSession.v)>>,
             summary |-> session.ServingSession.v,
             uid |-> DateKey(day.Date) \o <<"-", session.ServingSession.v, "-">>
                     \o plan.MenuPlanId.v \o <<"@", "week1", ".json">>] >>

ExpectedOfPlan(session, plan) ==
    Flatten([d \in 1..Len(plan.Days) |-> ExpectedOfDay(session, plan, plan.Days[d])])

ExpectedOfSession(session) ==
    IF IsRecognized(session)
    THEN Flatten([p \in 1..Len(session.MenuPlans) |->
                    ExpectedOfPlan(session, session.MenuPlans[p])])
    ELSE <<>>

ExpectedEvents(document) ==
    Flatten([s \in 1..Len(document.FamilyMenuSessions) |->
               ExpectedOfSession(document.FamilyMenuSessions[s])])

\* C5: in the plans of the sessions with a recognized label the events are
\* exactly one per day whose date parses as month/day/year, in source
\* order; a day whose date does not parse, or is missing, is the only thing
\* skipped, and every later day, plan and session still yields its event.
C5_OneEventPerParsableDay ==
    ics # Unset =>
        [e \in 1..Len(EventsOf(ics)) |->
            [start |-> EventsOf(ics)[e].DTSTART.value,
             summary |-> EventsOf(ics)[e].SUMMARY,
             uid |-> EventsOf(ics)[e].UID]]
          = ExpectedEvents(data)

C5_Witness ==
    /\ ics # Unset
    /\ Len(data.FamilyMenuSessions) = 1
    /\ IsRecognized(data.FamilyMenuSessions[1])
    /\ Len(data.FamilyMenuSessions[1].MenuPlans) = 2
    /\ Len(data.FamilyMenuSessions[1].MenuPlans[1].Days) = 2
    /\ data.FamilyMenuSessions[1].MenuPlans[1].Days[1].Date = JStr(Date_13_45_2024)
    /\ data.FamilyMenuSessions[1].MenuPlans[1].Days[2].Date = JStr(Date_3_4_2024)
    /\ data.FamilyMenuSessions[1].MenuPlans[2].Days = <<[Date |-> JStr(Date_12_05_2024), MenuMeals |-> PizzaMeals]>>
    /\ Len(EventsOf(ics)) = 2

(***************************************************************************)
(* Claims about the File Driver.                                           *)
(***************************************************************************)
Inputs(entries) == [i \in 1..Len(entries) |-> entries[i].input]

\* C1: whatever happens while one input is processed, every later input is
\* still handed to the Document Processor, in the given order, and the run
\* reaches the end of the list.
C1_Isolation ==
    /\ status # "aborted"
    /\ Inputs(log) = SubSeq(json_files, 1, Len(log))
    /\ status = "done" => Len(log) = Len(json_files)

NoEventDocument(document) ==
    \A s \in 1..Len(document.FamilyMenuSessions) :
        LET session == document.FamilyMenuSessions[s]
        IN \/ ~IsRecognized(session)
           \/ \A p \in 1..Len(session.MenuPlans) :
                \A d \in 1..Len(session.MenuPlans[p].Days) :
                    session.MenuPlans[p].Days[d].Date
                        \in {JStr(Date_2_30_2024), JStr(Date_13_45_2024), JNull, Absent}

Sibling(path) == [dir |-> path.dir, base |-> path.base, ext |-> ".ics"]

\* C3: the output of an input is written next to it, to the path with the
\* same directory and base name and the calendar extension, so that inputs
\* in different directories are written to different outputs.
C3_SiblingOutput ==
    /\ \A i \in 1..Len(log) :
        log[i].write = "ok" =>
            \E f \in disk : f.path = Sibling(log[i].input)
    /\ \A i, j \in 1..Len(log) :
        /\ log[i].write = "ok" /\ log[j].write = "ok"
        /\ log[i].input.dir # log[j].input.dir
        => Cardinality(disk) >= 2

\* What an event is made from: the calendar date, the session label, the
\* plan identifier and the source file.
OriginsOf(entry) ==
    LET reached == DaysReached(entry.content.v)
        parsed == SelectSeq(reached, LAMBDA it : strptime(Get(it.day.Date)).ok)
    IN [e \in 1..Len(parsed) |->
          [date |-> strftime(strptime(Get(parsed[e].day.Date))),
           label |-> parsed[e].serving_session,
           plan |-> parsed[e].plan.MenuPlanId,
           file |-> entry.input]]

\* The events of the output documents written: document i, event e.
Produced ==
    UNION { {[i |-> i, e |-> e] : e \in 1..Len(EventsOf(log[i]))} :
              i \in {j \in 1..Len(log) : log[j].write = "ok"} }
UidOf(x) == EventsOf(log[x.i])[x.e].UID

\* C6: two events of a run whose (date, session, plan, file) differ have
\* different identifiers, and no two events of one output document have
\* the same identifier.
C6_UniqueIds ==
    \A x, y \in Produced :
        x # y =>
            /\ x.i = y.i => UidOf(x) # UidOf(y)
            /\ OriginsOf(log[x.i])[x.e] # OriginsOf(log[y.i])[y.e] => UidOf(x) # UidOf(y)

IsTimezone(component) == component.type = "VTIMEZONE"
Calendars == {log[i].value.v : i \in {j \in 1..Len(log) : log[j].value # None}}

\* C8: the local timezone is read once per run: every output document has
\* exactly one timezone declaration, right after the header and before all
\* events, the start and the end of each of its events carry the zone that
\* declaration names, and all documents of the run name the same zone,
\* also when the environment's zone changes while the run is in progress.
C8_OneZonePerRun ==
    \A cal \in Calendars :
        /\ cal[1] = CalendarBegin
        /\ Len(SelectSeq(cal, IsTimezone)) = 1
        /\ IsTimezone(cal[2])
        /\ \A c \in 3..Len(cal) :
            IsEvent(cal[c]) =>
                /\ cal[c].DTSTART.TZID = cal[2].TZID
                /\ cal[c].DTEND.TZID = cal[2].TZID
        /\ \A other \in Calendars : other[2].TZID = cal[2].TZID
        /\ tz_cache = [k |-> "zone", key |-> cal[2].TZID]

C8_Witness ==
    /\ Len(log) = 2
    /\ log[1].write = "ok" /\ log[2].write = "ok"
    /\ Len(EventsOf(log[1])) = 2
    /\ tz_env # log[1].value.v[2].TZID
    /\ log[2].value.v[2].TZID = log[1].value.v[2].TZID

(***************************************************************************)
(* Formatter runs: format_description applied to one day's meals.          *)
(***************************************************************************)
RecipeA == W("Apple")
RecipeB == W("Bread")
RecipeC == W("Corn")
\* Two words of 40 characters each: longer than the fold width together.
RecipeLong2 == <<Word("Macaroni", 40)>> \o SP \o <<Word("Casserole", 40)>>
\* One token of 80 characters: longer than the fold width by itself.
RecipeLong1 == <<Word("Ratatouille", 80)>>

Recipe(name) == [RecipeName |-> JStr(name)]

CategoryChoices ==
    { <<>>,
      << <<Recipe(RecipeA)>> >>,
      << <<Recipe(RecipeA), Recipe(RecipeB)>>, <<>>, <<Recipe(RecipeC)>> >>,
      << <<Recipe(RecipeLong2), Recipe(RecipeLong1)>> >> }

MealNameChoices ==
    { Absent,
      JStr(DailySpecial),
      JStr(Milk),
      JStr(W("Entree")),
      JStr(W("Chocolate") \o SP \o Milk \o SP \o DailySpecial) }

MealChoices ==
    { [MenuMealName |-> nm, RecipeCategories |-> cs] :
        nm \in MealNameChoices, cs \in CategoryChoices }

InitFmt ==
    /\ IdleDriver /\ IdleDocument
    /\ menu_meals \in SeqsUpTo(MealChoices, MaxMeals)
    /\ description = Unset

FormatDescription ==
    /\ description = Unset
    /\ description' = JStr(format_description(menu_meals))
    /\ UNCHANGED <<driver_vars, data, ics, menu_meals>>

NextFmt == FormatDescription

SpecFmt == InitFmt /\ [][NextFmt]_vars

(***************************************************************************)
(* Reading a description back: its lines (between newline escapes), the    *)
(* pieces of a folded line, and the characters of a text.                  *)
(***************************************************************************)
\* The lines of a description; the empty description has none.
LinesOf(t) == IF t = <<>> THEN <<>> ELSE SplitAt(t, ESC, <<>>)

\* Adjacent fragments of one token, and adjacent whitespace, as one token.
Continues(a, b) ==
    (a.ws /\ b.ws) \/ (~a.ws /\ ~b.ws /\ a.s = b.s /\ b.off = a.off + a.n)

GlueBefore(a, rest) ==
    IF Continues(a, Head(rest))
    THEN <<[a EXCEPT !.n = a.n + Head(rest).n]>> \o Tail(rest)
    ELSE <<a>> \o rest

RECURSIVE Glue(_)
Glue(t) ==
    IF Len(t) <= 1 THEN t
    ELSE GlueBefore(Head(t), Glue(Tail(t)))

IsWordToken(c) == ~c.ws
\* The non-whitespace characters of a text, in order.
Words(t) == Glue(SelectSeq(t, IsWordToken))

IsNonBlankLine(l) == l # <<>>

\* The three groups as the layout describes them, from the meals.
ClassOf(meal) ==
    IF Contains(MealName(meal), DailySpecial) THEN "special"
    ELSE IF Contains(MealName(meal), Milk) THEN "milk"
    ELSE "other"

RecipeTexts(meal) ==
    Flatten([c \in 1..Len(meal.RecipeCategories) |->
               [r \in 1..Len(meal.RecipeCategories[c]) |->
                  meal.RecipeCategories[c][r].RecipeName.v]])

Bulleted(texts) == [i \in 1..Len(texts) |-> W("-") \o SP \o texts[i]]
BulletsOf(meal) == Bulleted(RecipeTexts(meal))

RECURSIVE BulletsOfClass(_, _)
BulletsOfClass(meals, cls) ==
    IF meals = <<>> THEN <<>>
    ELSE (IF ClassOf(Head(meals)) = cls THEN BulletsOf(Head(meals)) ELSE <<>>)
         \o BulletsOfClass(Tail(meals), cls)

RECURSIVE OtherSections(_)
OtherSections(meals) ==
    IF meals = <<>> THEN <<>>
    ELSE (IF ClassOf(Head(meals)) = "other" /\ RecipeTexts(Head(meals)) # <<>>
          THEN <<W("==") \o SP \o MealName(Head(meals)) \o SP \o W("==")>>
               \o BulletsOf(Head(meals))
          ELSE <<>>)
         \o OtherSections(Tail(meals))

Titled(title, bullets) ==
    IF bullets = <<>> THEN <<>>
    ELSE <<W("==") \o SP \o title \o SP \o W("==")>> \o bullets

GroupsOf(meals) ==
    << Titled(DailySpecial, BulletsOfClass(meals, "special")),
       OtherSections(meals),
       Titled(Milk, BulletsOfClass(meals, "milk")) >>

IsNonEmptyGroup(g) == g # <<>>
WordsOfEach(ls) == [i \in 1..Len(ls) |-> Words(ls[i])]

\* C7: the lines of the description are the non-empty groups in the order
\* Daily Special, other, Milk, with exactly one blank line between each two
\* adjacent groups, none before the first or after the last, and the
\* description is empty when all three groups are.
C7_Layout ==
    description # Unset =>
        WordsOfEach(LinesOf(description.v))
          = WordsOfEach(Join(<< <<>> >>, SelectSeq(GroupsOf(menu_meals), IsNonEmptyGroup)))

\* C9: every line of the description is folded into pieces of at most 72
\* characters, and the pieces of a line concatenated give back the line,
\* its whitespace included.
C9_FoldLossless ==
    description # Unset =>
        \A i \in 1..Len(description_parts(menu_meals)) :
            LET line == description_parts(menu_meals)[i]
                pieces == wrap(line, FoldWidth)
            IN /\ \A p \in 1..Len(pieces) : TextLen(pieces[p]) <= FoldWidth
               /\ Glue(Flatten(pieces)) = Glue(line)

\* C10: every recipe of every meal is exactly one bulleted line of the
\* description, in its one group; the groups keep the source order, each
\* other meal with recipes has its header directly before its bullets, and
\* an other meal without recipes adds no line.
C10_RecipesPreserved ==
    description # Unset =>
        WordsOfEach(SelectSeq(LinesOf(description.v), IsNonBlankLine))
          = WordsOfEach(Flatten(GroupsOf(menu_meals)))

C10_Witness ==
    /\ description # Unset
    /\ Len(menu_meals) = 3
    /\ ClassOf(menu_meals[1]) = "other" /\ Len(RecipeTexts(menu_meals[1])) = 3
    /\ Contains(MealName(menu_meals[2]), Milk)
    /\ ClassOf(menu_meals[2]) = "special" /\ RecipeTexts(menu_meals[2]) # <<>>
    /\ ClassOf(menu_meals[3]) = "other" /\ RecipeTexts(menu_meals[3]) = <<>>


====
